---------------------------- MODULE Spec2Model ----------------------------
(***************************************************************************)
(* conditional-dns: a DNS proxy that classifies each query name against an *)
(* ordered list of rules and answers locally, from OpenDNS, from Unlocator *)
(* or with the sniproxy address (src/conditional-dns.py).                  *)
(*                                                                         *)
(* Strings and byte strings are sequences of byte values (ASCII codes), so *)
(* that slicing, concatenation and substring search are computed.          *)
(* dnslib's wire format is not part of the program; it is stood in for by  *)
(* a fixed layout  <<id, qtype>> \o name  (DNSRecord_parse / DNSRecord_pack)*)
(***************************************************************************)
EXTENDS Integers, Sequences, FiniteSets, TLC

VARIABLES
    cfg,      \* the module-level globals read from the host and the conf file
    args,     \* argparse result: [udp, tcp, port]
    mainpc,   \* position of main()
    msub,     \* index of the server main() is working on (start / shutdown loops)
    servers,  \* main()'s list `servers`
    reqs,     \* one record per request handler thread
    nreq,     \* number of requests accepted so far
    env,      \* the surroundings of a run: how many requests the clients send (n),
              \* which ones (inputs), what the resolvers may return (outcomes)
    frame     \* a payload put through TCPRequestHandler.send_data / get_data

vars == <<cfg, args, mainpc, msub, servers, reqs, nreq, env, frame>>

(***************************************************************************)
(* Bounds of the model.                                                    *)
(***************************************************************************)
MaxReq == 2        \* handler threads in a run of the whole server
MaxFrags == 2      \* a query name is built from at most this many fragments
MaxPayload == 3    \* short payloads of the framing round trip: every length up to this

Reqs == 1..MaxReq

Min(a, b) == IF a < b THEN a ELSE b

\* F applied to the value of v, v being evaluated once
Eval(v, F(_)) == CHOOSE y \in {F(x) : x \in {v}} : TRUE

(***************************************************************************)
(* Strings.                                                                *)
(***************************************************************************)
DOT == <<46>>                                               \* "."
opendns_com == <<111,112,101,110,100,110,115,46,99,111,109>> \* "opendns.com"
localdns == <<108,111,99,97,108,100,110,115>>               \* "localdns"
RevLo == <<49,46,48,46,48,46,49,50,55,46,105,110,45,97,100,100,114,46,97,114,112,97,46>>
                                                            \* "1.0.0.127.in-addr.arpa."

\* Python's  x in qn  for two strings: x occurs somewhere in qn.
Contains(x, qn) ==
    \E i \in 0..(Len(qn) - Len(x)) : SubSeq(qn, i + 1, i + Len(x)) = x

\* any([ x in qn for x in items ])
AnyIn(items, qn) == \E k \in 1..Len(items) : Contains(items[k], qn)

\* qn in myreversedns : list membership, string equality
InList(qn, items) == \E k \in 1..Len(items) : items[k] = qn

(***************************************************************************)
(* Addresses are four octets.  IPAddress(a) in IPNetwork(net/prefix).      *)
(***************************************************************************)
BlockNet == <<146, 112, 61, 104>>
BlockPrefix == 29

Pow2(n) == IF n = 0 THEN 1 ELSE IF n = 1 THEN 2 ELSE IF n = 2 THEN 4
           ELSE IF n = 3 THEN 8 ELSE IF n = 4 THEN 16 ELSE IF n = 5 THEN 32
           ELSE IF n = 6 THEN 64 ELSE IF n = 7 THEN 128 ELSE 256

InNetworkLow(ip, net, prefix) ==
    \* a mask one bit too long: 146.112.61.104/30
    /\ SubSeq(ip, 1, 3) = SubSeq(net, 1, 3)
    /\ ip[4] \div Pow2(31 - prefix) = net[4] \div Pow2(31 - prefix)

InNetwork(ip, net, prefix) ==
    \* prefix >= 24: the first three octets agree and the last agrees above the host bits
    /\ SubSeq(ip, 1, 3) = SubSeq(net, 1, 3)
    /\ ip[4] \div Pow2(32 - prefix) = net[4] \div Pow2(32 - prefix)

(***************************************************************************)
(* The DNS message codec (dnslib), stood in for by a fixed layout.         *)
(***************************************************************************)
QTYPE_A == 1
QTYPE_PTR == 12
TTL == 5 * 60

\* DNSRecord.parse(data): a request, or an exception
DNSRecord_parse(data) ==
    IF Len(data) >= 3 /\ data[Len(data)] = 46
    THEN [ok |-> TRUE, id |-> data[1], qtype |-> data[2],
          qname |-> SubSeq(data, 3, Len(data))]
    ELSE [ok |-> FALSE, id |-> 0, qtype |-> 0, qname |-> <<>>]

PackRR(rr) ==
    <<rr.rtype, rr.ttl \div 256, rr.ttl % 256, Len(rr.rdata)>> \o rr.rdata

RECURSIVE PackRRs(_)
PackRRs(rrs) == IF rrs = <<>> THEN <<>> ELSE PackRR(Head(rrs)) \o PackRRs(Tail(rrs))

\* reply.pack()
DNSRecord_pack(reply) ==
    <<reply.id, reply.q.qtype>> \o reply.q.qname \o PackRRs(reply.rr)

\* DNSRecord(DNSHeader(id=request.header.id, qr=1, aa=1, ra=1), q=request.q)
ReplySkeleton(request) ==
    [id |-> request.id, qr |-> 1, aa |-> 1, ra |-> 1,
     q |-> [qname |-> request.qname, qtype |-> request.qtype], rr |-> <<>>]

add_answer_asked(reply, qn, rtype, rdata) ==
    \* the answer given the record type the question asked for
    [reply EXCEPT !.rr = Append(@, [rname |-> qn, rtype |-> reply.q.qtype,
                                    rdata |-> rdata, ttl |-> TTL])]

\* reply.add_answer(RR(qn, rtype, rdata=..., ttl=5*60))
add_answer(reply, qn, rtype, rdata) ==
    [reply EXCEPT !.rr = Append(@, [rname |-> qn, rtype |-> rtype,
                                    rdata |-> rdata, ttl |-> TTL])]

NoReply == [id |-> 0, qr |-> 0, aa |-> 0, ra |-> 0,
            q |-> [qname |-> <<>>, qtype |-> 0], rr |-> <<>>]

(***************************************************************************)
(* dns_response: the branch of the if / elif chain taken for a name.       *)
(***************************************************************************)
DecisionForcedFirst(qn, c) ==
    \* the chain with the alwaysOpendns test moved ahead of the sniproxy test
    IF InList(qn, c.myreversedns) THEN "Local"
    ELSE IF Contains(opendns_com, qn) THEN "Management"
    ELSE IF AnyIn(c.alwaysOpendns, qn) THEN "ForcedPrimary"
    ELSE IF AnyIn(c.sniproxyDomains, qn) THEN "Redirect"
    ELSE IF AnyIn(c.alwaysUnlocator, qn) THEN "ForcedSecondary"
    ELSE "Adaptive"

DecisionLocalLast(qn, c) ==
    \* the chain with the myreversedns test moved to the end
    IF Contains(opendns_com, qn) THEN "Management"
    ELSE IF AnyIn(c.sniproxyDomains, qn) THEN "Redirect"
    ELSE IF AnyIn(c.alwaysUnlocator, qn) THEN "ForcedSecondary"
    ELSE IF AnyIn(c.alwaysOpendns, qn) THEN "ForcedPrimary"
    ELSE IF InList(qn, c.myreversedns) THEN "Local"
    ELSE "Adaptive"

DecisionUnlocatorFirst(qn, c) ==
    \* the chain with the alwaysUnlocator test moved ahead of the sniproxy test
    IF InList(qn, c.myreversedns) THEN "Local"
    ELSE IF Contains(opendns_com, qn) THEN "Management"
    ELSE IF AnyIn(c.alwaysUnlocator, qn) THEN "ForcedSecondary"
    ELSE IF AnyIn(c.sniproxyDomains, qn) THEN "Redirect"
    ELSE IF AnyIn(c.alwaysOpendns, qn) THEN "ForcedPrimary"
    ELSE "Adaptive"

Decision(qn, c) ==
    IF InList(qn, c.myreversedns) THEN "Local"
    ELSE IF Contains(opendns_com, qn) THEN "Management"
    ELSE IF AnyIn(c.sniproxyDomains, qn) THEN "Redirect"
    ELSE IF AnyIn(c.alwaysUnlocator, qn) THEN "ForcedSecondary"
    ELSE IF AnyIn(c.alwaysOpendns, qn) THEN "ForcedPrimary"
    ELSE "Adaptive"

(***************************************************************************)
(* Transport framing.                                                      *)
(***************************************************************************)
RecvMax == 8192

\* struct.pack('>H', n) for 0 <= n <= 65535
pack_H(n) == <<n \div 256, n % 256>>

unpack_H_little(b) == b[1] + 256 * b[2]

\* struct.unpack('>H', b)[0] for two bytes
unpack_H(b) == 256 * b[1] + b[2]

recv_all(conn, bufsize) ==
    \* a read that waits until the peer has sent everything
    IF conn = <<>> THEN <<>>
    ELSE IF Len(conn) = 1 THEN conn[1]
    ELSE conn[1] \o conn[2]

\* self.request.recv(8192): what the connection holds when the handler reads,
\* cut to the buffer size.  conn is the sequence of chunks as they arrive.
recv(conn, bufsize) ==
    IF conn = <<>> THEN <<>> ELSE SubSeq(conn[1], 1, Min(Len(conn[1]), bufsize))

\* what the connection still holds after self.request.recv(bufsize)
after_recv(conn, bufsize) ==
    IF conn = <<>> THEN <<>>
    ELSE IF Len(conn[1]) > bufsize
    THEN <<SubSeq(conn[1], bufsize + 1, Len(conn[1]))>> \o Tail(conn)
    ELSE Tail(conn)

\* get_data raises: the message, the recv calls made, what the connection still holds
GetFailed(err, reads, rest) ==
    [ok |-> FALSE, data |-> <<>>, err |-> err, reads |-> reads, rest |-> rest]

\* get_data returns data
GetData(data, reads, rest) ==
    [ok |-> TRUE, data |-> data, err |-> "none", reads |-> reads, rest |-> rest]

TCP_get_data_lenient(conn) ==
    \* the framing check dropped for trailing bytes
    LET data == recv(conn, RecvMax)
        rest == after_recv(conn, RecvMax)
    IN  IF Len(data) < 2
        THEN GetFailed("struct.error", 1, rest)
        ELSE LET sz == unpack_H(SubSeq(data, 1, 2)) IN
             IF sz > Len(data) - 2
             THEN GetFailed("Too big TCP packet", 1, rest)
             ELSE GetData(SubSeq(data, 3, 2 + sz), 1, rest)

TCP_get_data_swapped(conn) ==
    \* the two messages exchanged
    LET data == recv(conn, RecvMax)
        rest == after_recv(conn, RecvMax)
    IN  IF Len(data) < 2
        THEN GetFailed("struct.error", 1, rest)
        ELSE LET sz == unpack_H(SubSeq(data, 1, 2)) IN
             IF sz < Len(data) - 2
             THEN GetFailed("Too big TCP packet", 1, rest)
             ELSE IF sz > Len(data) - 2
             THEN GetFailed("Wrong size of TCP packet", 1, rest)
             ELSE GetData(SubSeq(data, 3, Len(data)), 1, rest)

\* TCPRequestHandler.get_data: one recv, then the length check
TCP_get_data(conn) ==
    LET data == recv(conn, RecvMax)
        rest == after_recv(conn, RecvMax)
    IN  IF Len(data) < 2
        THEN GetFailed("struct.error", 1, rest)
        ELSE LET sz == unpack_H(SubSeq(data, 1, 2)) IN
             IF sz < Len(data) - 2
             THEN GetFailed("Wrong size of TCP packet", 1, rest)
             ELSE IF sz > Len(data) - 2
             THEN GetFailed("Too big TCP packet", 1, rest)
             ELSE GetData(SubSeq(data, 3, Len(data)), 1, rest)

\* UDPRequestHandler.get_data: self.request[0], the datagram the server read
UDP_get_data(conn) == GetData(conn[1], 0, <<>>)

get_data(kind, conn) == IF kind = "TCP" THEN TCP_get_data(conn) ELSE UDP_get_data(conn)

\* TCPRequestHandler.send_data: the bytes handed to sendall, or struct.error
TCP_send_data(data) ==
    IF Len(data) > 65535
    THEN [ok |-> FALSE, bytes |-> <<>>]
    ELSE [ok |-> TRUE, bytes |-> pack_H(Len(data)) \o data]

\* UDPRequestHandler.send_data: one datagram to self.client_address
UDP_send_data(data) == [ok |-> TRUE, bytes |-> data]

send_data(kind, data) == IF kind = "TCP" THEN TCP_send_data(data) ELSE UDP_send_data(data)

(***************************************************************************)
(* A request handler thread (BaseRequestHandler.handle running             *)
(* dns_response).  Its record holds the handler's locals and what it did.  *)
(***************************************************************************)
NoAddr == <<>>

IdleReq ==
    [pc |-> "idle", kind |-> "none", client |-> <<>>, conn |-> <<>>, seq |-> 0,
     bound |-> FALSE, data |-> <<>>, branch |-> "none", await |-> "none",
     odnsAns |-> NoAddr, unlocAns |-> NoAddr, calls |-> <<>>, reply |-> NoReply, sent |-> <<>>,
     logged |-> <<>>, outcome |-> "none", err |-> "none", exc |-> "none",
     reads |-> 0, unread |-> <<>>]

NewReqSharedClient(kind, client, conn, n) ==
    \* the client address kept in one place for all handlers: the first client's
    [IdleReq EXCEPT !.pc = "handle", !.kind = kind,
                    !.client = <<<<192, 168, 1, 1>>, 50001>>,
                    !.conn = conn, !.seq = n]

\* socketserver hands the accepted datagram / connection to a new handler
NewReq(kind, client, conn, n) ==
    [IdleReq EXCEPT !.pc = "handle", !.kind = kind, !.client = client,
                    !.conn = conn, !.seq = n]

InfoLine(label, qn, addr) ==
    [level |-> "INFO", label |-> label, qn |-> qn, addr |-> addr,
     client |-> <<>>, data |-> <<>>]

\* the except clause of handle: logger.error(... data) then logger.exception(...)
ErrorLines(rec) ==
    << [level |-> "ERROR", label |-> rec.kind, qn |-> <<>>, addr |-> NoAddr,
        client |-> rec.client, data |-> rec.data],
       [level |-> "ERROR", label |-> "Error parsing DNS request", qn |-> <<>>,
        addr |-> NoAddr, client |-> <<>>, data |-> <<>>] >>

FinishKeepAlive(rec) ==
    \* a handler that goes back to read the next query of its connection
    IF rec.kind = "TCP" /\ rec.unread # <<>>
    THEN [rec EXCEPT !.pc = "handle", !.await = "none", !.conn = rec.unread]
    ELSE [rec EXCEPT !.pc = "done", !.await = "none"]

\* handle returns (or an exception leaves it): the handler thread is through and
\* socketserver closes the request
Finish(rec) == [rec EXCEPT !.pc = "done", !.await = "none"]

RaisedServfail(rec, err) ==
    \* an except clause that answers the client with an error response
    Finish([rec EXCEPT !.outcome = "error", !.err = err,
                       !.sent = Append(@, [to |-> rec.client, bytes |-> <<0, 2>>])])

\* An exception reaches the except clause of handle.  The clause formats `data`:
\* when get_data raised, `data` was never assigned, the clause itself raises
\* and nothing is logged.
Raised(rec, err) ==
    IF rec.bound
    THEN Finish([rec EXCEPT !.outcome = "error", !.err = err,
                            !.logged = @ \o ErrorLines(rec)])
    ELSE Finish([rec EXCEPT !.outcome = "crash", !.err = err])

RepliedLogTwice(rec, reply, lines) ==
    \* every record reaching the log file twice (the file handler added twice)
    Eval(send_data(rec.kind, DNSRecord_pack(reply)), LAMBDA s :
        IF s.ok
        THEN Finish([rec EXCEPT !.reply = reply,
                                !.logged = @ \o lines \o lines, !.outcome = "replied",
                                !.sent = Append(@, [to |-> rec.client, bytes |-> s.bytes])])
        ELSE Raised([rec EXCEPT !.reply = reply, !.logged = @ \o lines \o lines], "send"))

\* return reply.pack()  followed by  self.send_data(...)  in handle
Replied(rec, reply, lines) ==
    Eval(send_data(rec.kind, DNSRecord_pack(reply)), LAMBDA s :
        IF s.ok
        THEN Finish([rec EXCEPT !.reply = reply,
                                !.logged = @ \o lines, !.outcome = "replied",
                                !.sent = Append(@, [to |-> rec.client, bytes |-> s.bytes])])
        ELSE Raised([rec EXCEPT !.reply = reply, !.logged = @ \o lines], "send"))

\* opendnsRes.query(qn) / unlocatorRes.query(qn): the handler blocks in the call
Query(rec, branch, which) ==
    [rec EXCEPT !.pc = "query", !.branch = branch, !.await = which,
                !.calls = Append(@, which)]

ResolverForOpendnsOnly(d) == "opendns"   \* the alwaysUnlocator branch calling opendnsRes

\* the resolver a branch calls first: unlocatorRes for the alwaysUnlocator
\* branch, opendnsRes for the others
ResolverFor(d) == IF d = "ForcedSecondary" THEN "unlocator" ELSE "opendns"

\* dns_response from the if / elif chain on, up to its first resolver call or to
\* the end
Branch(rec, request, d, c) ==
    LET qn == request.qname
        reply == ReplySkeleton(request)
        r0 == [rec EXCEPT !.branch = d]
    IN  IF d = "Local"
        THEN Replied(r0, add_answer(reply, qn, QTYPE_PTR, localdns), <<>>)
        ELSE IF d = "Redirect"
        THEN Replied(r0, add_answer(reply, qn, QTYPE_A, c.sniproxyServer),
                     <<InfoLine("SNIPROXY", qn, c.sniproxyServer)>>)
        ELSE Query(rec, d, ResolverFor(d))

\* dns_response(data): parse, then classify
Respond(rec, c) ==
    Eval(DNSRecord_parse(rec.data), LAMBDA request :
        IF ~request.ok THEN Raised(rec, "decode")
        ELSE Eval(Decision(request.qname, c), LAMBDA d :
                Branch(rec, request, d, c)))

\* BaseRequestHandler.handle: get_data, then dns_response
HandleStep(rec, c) ==
    Eval(get_data(rec.kind, rec.conn), LAMBDA g :
        Eval([rec EXCEPT !.reads = @ + g.reads, !.unread = g.rest], LAMBDA r0 :
            IF ~g.ok THEN Raised([r0 EXCEPT !.exc = g.err], "framing")
            ELSE Eval([r0 EXCEPT !.bound = TRUE, !.data = g.data], LAMBDA r1 :
                    Respond(r1, c))))

\* the final if / else of the Adaptive branch
AdaptiveChoice(odnsAns, unlocAns) ==
    IF InNetwork(odnsAns, BlockNet, BlockPrefix)
    THEN [addr |-> odnsAns, label |-> "BLOCKED"]
    ELSE [addr |-> unlocAns, label |-> "UNLOCATOR"]

\* odnsAns = odnsResp[0].address  /  unlocAns = unlocResp[0].address
Bind(rec, out) ==
    IF rec.await = "opendns"
    THEN [rec EXCEPT !.odnsAns = out.address]
    ELSE [rec EXCEPT !.unlocAns = out.address]

ResumeBlockFirst(rec, request) ==
    \* the Adaptive branch testing the OpenDNS answer before it asks Unlocator
    LET qn == request.qname
        reply == ReplySkeleton(request)
    IN  IF rec.branch = "Management"
        THEN Replied(rec, add_answer(reply, qn, QTYPE_A, rec.odnsAns),
                     <<InfoLine("MGMT", qn, rec.odnsAns)>>)
        ELSE IF rec.branch = "ForcedSecondary"
        THEN Replied(rec, add_answer(reply, qn, QTYPE_A, rec.unlocAns),
                     <<InfoLine("ALWAYS_UNLOCATOR", qn, rec.unlocAns)>>)
        ELSE IF rec.branch = "ForcedPrimary"
        THEN Replied(rec, add_answer(reply, qn, QTYPE_A, rec.odnsAns),
                     <<InfoLine("ALWAYS_OPENDNS", qn, rec.odnsAns)>>)
        ELSE IF rec.await = "opendns" /\ ~InNetwork(rec.odnsAns, BlockNet, BlockPrefix)
        THEN Query(rec, rec.branch, "unlocator")
        ELSE Eval(AdaptiveChoice(rec.odnsAns, rec.unlocAns), LAMBDA ch :
                Replied(rec, add_answer(reply, qn, QTYPE_A, ch.addr),
                        <<InfoLine(ch.label, qn, ch.addr)>>))

\* dns_response after the awaited resolver call has returned an address
Resume(rec, request) ==
    LET qn == request.qname
        reply == ReplySkeleton(request)
    IN  IF rec.branch = "Management"
        THEN Replied(rec, add_answer(reply, qn, QTYPE_A, rec.odnsAns),
                     <<InfoLine("MGMT", qn, rec.odnsAns)>>)
        ELSE IF rec.branch = "ForcedSecondary"
        THEN Replied(rec, add_answer(reply, qn, QTYPE_A, rec.unlocAns),
                     <<InfoLine("ALWAYS_UNLOCATOR", qn, rec.unlocAns)>>)
        ELSE IF rec.branch = "ForcedPrimary"
        THEN Replied(rec, add_answer(reply, qn, QTYPE_A, rec.odnsAns),
                     <<InfoLine("ALWAYS_OPENDNS", qn, rec.odnsAns)>>)
        ELSE IF rec.await = "opendns"
        THEN Query(rec, rec.branch, "unlocator")
        ELSE Eval(AdaptiveChoice(rec.odnsAns, rec.unlocAns), LAMBDA ch :
                Replied(rec, add_answer(reply, qn, QTYPE_A, ch.addr),
                        <<InfoLine(ch.label, qn, ch.addr)>>))

\* the awaited resolver call returns `out`: an exception, or an address
ReturnStep(rec, out) ==
    IF ~out.ok THEN Raised(rec, "resolver")
    ELSE Eval(Bind(rec, out), LAMBDA r1 :
            Eval(DNSRecord_parse(r1.data), LAMBDA request : Resume(r1, request)))

(***************************************************************************)
(* The environment: configurations, query names, client traffic, resolver  *)
(* answers.                                                                *)
(***************************************************************************)
str_a == <<97>>                                  \* "a"
str_b == <<98>>                                  \* "b"
str_dns == <<100,110,115>>                       \* "dns"
str_arpa == <<97,114,112,97>>                    \* "arpa"
str_opendns == <<111,112,101,110,100,110,115>>   \* "opendns"
str_com == <<46,99,111,109>>                     \* ".com"
RevLoBare == SubSeq(RevLo, 1, Len(RevLo) - 1)    \* "1.0.0.127.in-addr.arpa"

Fragments == {opendns_com, str_opendns, str_com, str_a, str_b, RevLoBare}

RECURSIVE FragSeqs(_)
FragSeqs(n) ==
    IF n = 0 THEN {<<>>}
    ELSE FragSeqs(n - 1) \cup {s \o f : s \in FragSeqs(n - 1), f \in Fragments}

\* str(qname) is a fully qualified name: it ends with a dot
Names == {s \o DOT : s \in FragSeqs(MaxFrags) \ {<<>>}}

\* the stripped, non-empty lines of an `items` option
ItemLists == {<<>>, <<str_a>>, <<str_arpa>>, <<str_dns, str_b>>}

SniproxyAddr == <<10, 0, 0, 5>>

Configs ==
    [myreversedns : {<<>>, <<RevLo>>},
     sniproxyServer : {SniproxyAddr},
     sniproxyDomains : ItemLists,
     alwaysOpendns : ItemLists,
     alwaysUnlocator : ItemLists]

SysConfig ==
    [myreversedns |-> <<RevLo>>,
     sniproxyServer |-> SniproxyAddr,
     sniproxyDomains |-> <<str_a>>,
     alwaysOpendns |-> <<str_dns, str_a>>,
     alwaysUnlocator |-> <<str_b>>]

\* one name for each branch under SysConfig
SysNames ==
    {RevLo, opendns_com \o DOT, str_a \o DOT, str_b \o DOT,
     str_opendns \o DOT, str_com \o DOT}

QTypes == {QTYPE_A, QTYPE_PTR}

\* a query as the codec lays it out
Datagram(id, qtype, qn) == <<id, qtype>> \o qn

\* a client's framing of a payload for TCP
Framed(p) == pack_H(Len(p)) \o p

Malformed == <<7, 1, 97>>     \* no question the codec can decode

UDPInputs ==
    {[kind |-> "UDP", conn |-> <<Datagram(7, QTYPE_A, n)>>] :
        n \in SysNames \ {str_opendns \o DOT}}
    \cup {[kind |-> "UDP", conn |-> <<Malformed>>]}

TCPInputs ==
    LET q == Datagram(9, QTYPE_A, str_opendns \o DOT)
        l == Datagram(9, QTYPE_PTR, RevLo)
    IN  {[kind |-> "TCP", conn |-> c] :
            c \in { <<Framed(q)>>,                         \* well framed
                    <<Framed(l)>>,
                    <<Framed(Malformed)>>,                 \* well framed, undecodable
                    <<Framed(q) \o <<0>>>>,                \* a byte too many
                    <<SubSeq(Framed(q), 1, Len(q) + 1)>>,  \* a byte missing
                    <<SubSeq(Framed(q), 1, 3), SubSeq(Framed(q), 4, Len(q) + 2)>>,
                                                           \* delivered in two chunks
                    <<<<0>>>>,                             \* one byte only
                    <<>> }}                                \* closed without data

SysInputs == UDPInputs \cup TCPInputs

LiveInputs ==
    {[kind |-> "UDP", conn |-> <<Datagram(7, QTYPE_A, str_com \o DOT)>>],
     [kind |-> "UDP", conn |-> <<Datagram(7, QTYPE_A, str_a \o DOT)>>],
     [kind |-> "TCP", conn |-> <<Framed(Datagram(7, QTYPE_A, str_b \o DOT))>>],
     [kind |-> "TCP", conn |-> <<Framed(Datagram(7, QTYPE_A, str_b \o DOT)) \o <<0>>>>]}

\* the n-th client: (address, port)
ClientAddr(n) == <<<<192, 168, 1, n>>, 50000 + n>>

Failure == [ok |-> FALSE, address |-> NoAddr]
Answer(a) == [ok |-> TRUE, address |-> a]

\* what a resolver call can come back with: an address, or an exception
\* (timeout, NXDOMAIN, no nameserver, an empty answer indexed with [0])
WideOutcomes ==
    [opendns |-> {Failure} \cup {Answer(a) : a \in
                    {<<146,112,61,103>>, <<146,112,61,104>>, <<146,112,61,111>>,
                     <<146,112,61,112>>, <<146,112,62,105>>, <<93,184,216,34>>}},
     unlocator |-> {Failure} \cup {Answer(a) : a \in
                    {<<146,112,61,105>>, <<93,184,216,34>>}}]

SysOutcomes ==
    [opendns |-> {Failure, Answer(<<146,112,61,105>>), Answer(<<93,184,216,34>>)},
     unlocator |-> {Failure, Answer(<<185,37,37,80>>)}]

NoFrame == [pc |-> "none", p |-> <<>>, wire |-> <<>>, sendok |-> FALSE,
            got |-> GetFailed("none", 0, <<>>)]

(***************************************************************************)
(* main()                                                                  *)
(***************************************************************************)
DefaultPort == 5053

\* the values --port is given in the runs checked
Ports == {53, DefaultPort}

NewServerStarted(kind, port) ==
    \* the serve_forever thread started as soon as the server is created
    [kind |-> kind, port |-> port, thread |-> "serving", shutdown_request |-> FALSE]

\* socketserver.Threading{UDP,TCP}Server(('', args.port), ...): bound, not serving
NewServer(kind, port) ==
    [kind |-> kind, port |-> port, thread |-> "new", shutdown_request |-> FALSE]

NoTransportBoth(a) == ~(a.udp /\ a.tcp)    \* both flags demanded

\* not (args.udp or args.tcp)
NoTransport(a) == ~(a.udp \/ a.tcp)

\* the status the process ends with: parser.error exits with 2, an exception
\* that leaves main() with 1, the end of main() with 0
exit_status(pc) ==
    IF pc = "usage_error" THEN 2 ELSE IF pc = "bind_error" THEN 1 ELSE 0

\* if not (args.udp or args.tcp): parser.error(...)
MainParse ==
    /\ mainpc = "parse"
    /\ mainpc' = IF NoTransport(args) THEN "usage_error" ELSE "create_udp"
    /\ UNCHANGED <<cfg, args, msub, servers, reqs, nreq, env, frame>>

\* if args.udp: servers.append(ThreadingUDPServer(...)): binds, or raises
MainCreateUDP ==
    /\ mainpc = "create_udp"
    /\ \/ /\ args.udp
          /\ servers' = Append(servers, NewServer("UDP", args.port))
          /\ mainpc' = "create_tcp"
       \/ /\ args.udp
          /\ mainpc' = "bind_error"
          /\ UNCHANGED servers
       \/ /\ ~args.udp
          /\ mainpc' = "create_tcp"
          /\ UNCHANGED servers
    /\ UNCHANGED <<cfg, args, msub, reqs, nreq, env, frame>>

\* if args.tcp: servers.append(ThreadingTCPServer(...)): binds, or raises
MainCreateTCP ==
    /\ mainpc = "create_tcp"
    /\ \/ /\ args.tcp
          /\ servers' = Append(servers, NewServer("TCP", args.port))
          /\ mainpc' = "start"
       \/ /\ args.tcp
          /\ mainpc' = "bind_error"
          /\ UNCHANGED servers
       \/ /\ ~args.tcp
          /\ mainpc' = "start"
          /\ UNCHANGED servers
    /\ msub' = 1
    /\ UNCHANGED <<cfg, args, reqs, nreq, env, frame>>

\* for s in servers: thread = Thread(target=s.serve_forever); thread.start()
MainStart ==
    /\ mainpc = "start"
    /\ IF msub <= Len(servers)
       THEN /\ servers' = [servers EXCEPT ![msub].thread = "serving"]
            /\ msub' = msub + 1
            /\ UNCHANGED mainpc
       ELSE /\ mainpc' = "loop"
            /\ UNCHANGED <<servers, msub>>
    /\ UNCHANGED <<cfg, args, reqs, nreq, env, frame>>

\* KeyboardInterrupt inside  while 1: time.sleep(1)
Interrupt ==
    /\ mainpc = "loop"
    /\ mainpc' = "shutdown"
    /\ msub' = 1
    /\ UNCHANGED <<cfg, args, servers, reqs, nreq, env, frame>>

ShutdownFirstOnly(svrs) == Min(1, Len(svrs))

\* finally: for s in servers: ...   -- the servers the loop visits
ShutdownCount(svrs) == Len(svrs)

\* s.shutdown(): asks the serve_forever loop to stop ...
MainShutdownRequest ==
    /\ mainpc = "shutdown"
    /\ msub <= ShutdownCount(servers)
    /\ servers[msub].thread = "serving"
    /\ ~servers[msub].shutdown_request
    /\ servers' = [servers EXCEPT ![msub].shutdown_request = TRUE]
    /\ UNCHANGED <<cfg, args, mainpc, msub, reqs, nreq, env, frame>>

\* ... and returns once the loop has left
MainShutdownWait ==
    /\ mainpc = "shutdown"
    /\ msub <= ShutdownCount(servers)
    /\ servers[msub].thread = "exited"
    /\ msub' = msub + 1
    /\ UNCHANGED <<cfg, args, mainpc, servers, reqs, nreq, env, frame>>

MainExit ==
    /\ mainpc = "shutdown"
    /\ msub > ShutdownCount(servers)
    /\ mainpc' = "exited"
    /\ UNCHANGED <<cfg, args, msub, servers, reqs, nreq, env, frame>>

(***************************************************************************)
(* The listeners: serve_forever of a Threading{UDP,TCP}Server.             *)
(***************************************************************************)
ListenerState(s) ==
    IF s.thread = "serving"
    THEN IF s.shutdown_request THEN "Stopping" ELSE "Running"
    ELSE "Stopped"

Busy == \E r \in Reqs : reqs[r].pc \in {"handle", "query"}

CanAcceptInline(s) ==
    \* a server without the threading mix-in handles the request in its loop
    ListenerState(s) = "Running" /\ ~Busy

\* the loop takes the next request while no shutdown is requested; the handler
\* runs on a thread of its own
CanAccept(s) == ListenerState(s) = "Running"

Accept(i) ==
    /\ i \in 1..Len(servers)
    /\ CanAccept(servers[i])
    /\ nreq < env.n
    /\ \E inp \in env.inputs :
          /\ inp.kind = servers[i].kind
          /\ reqs' = [reqs EXCEPT ![nreq + 1] =
                         NewReq(inp.kind, ClientAddr(nreq + 1), inp.conn, nreq + 1)]
    /\ nreq' = nreq + 1
    /\ UNCHANGED <<cfg, args, mainpc, msub, servers, env, frame>>

LoopExit(i) ==
    /\ i \in 1..Len(servers)
    /\ ListenerState(servers[i]) = "Stopping"
    /\ servers' = [servers EXCEPT ![i].thread = "exited"]
    /\ UNCHANGED <<cfg, args, mainpc, msub, reqs, nreq, env, frame>>

(***************************************************************************)
(* The handler threads.                                                    *)
(***************************************************************************)
Handle(r) ==
    /\ reqs[r].pc = "handle"
    /\ reqs' = [reqs EXCEPT ![r] = HandleStep(reqs[r], cfg)]
    /\ UNCHANGED <<cfg, args, mainpc, msub, servers, nreq, env, frame>>

ResolverReturn(r) ==
    /\ reqs[r].pc = "query"
    /\ \E out \in env.outcomes[reqs[r].await] :
          reqs' = [reqs EXCEPT ![r] = ReturnStep(reqs[r], out)]
    /\ UNCHANGED <<cfg, args, mainpc, msub, servers, nreq, env, frame>>

(***************************************************************************)
(* The whole server.                                                       *)
(***************************************************************************)
Init ==
    /\ cfg = SysConfig
    /\ args \in [udp : BOOLEAN, tcp : BOOLEAN, port : {DefaultPort}]
    /\ mainpc = "parse"
    /\ msub = 0
    /\ servers = <<>>
    /\ reqs = [r \in Reqs |-> IdleReq]
    /\ nreq = 0
    /\ env = [n |-> MaxReq, inputs |-> SysInputs, outcomes |-> SysOutcomes]
    /\ frame = NoFrame

Main ==
    \/ MainParse \/ MainCreateUDP \/ MainCreateTCP \/ MainStart \/ Interrupt
    \/ MainShutdownRequest \/ MainShutdownWait \/ MainExit

Next ==
    \/ Main
    \/ \E i \in 1..2 : Accept(i) \/ LoopExit(i)
    \/ \E r \in Reqs : Handle(r) \/ ResolverReturn(r)

Spec == Init /\ [][Next]_vars

(***************************************************************************)
(* dns_response alone: one datagram already handed to a handler thread,    *)
(* over every configuration and every name.                                *)
(***************************************************************************)
InitResp ==
    /\ cfg \in Configs
    /\ args = [udp |-> TRUE, tcp |-> FALSE, port |-> DefaultPort]
    /\ mainpc = "loop"
    /\ msub = 2
    /\ servers = <<[NewServer("UDP", DefaultPort) EXCEPT !.thread = "serving"]>>
    /\ \E n \in Names, t \in QTypes :
          reqs = [r \in Reqs |->
                    IF r = 1
                    THEN NewReq("UDP", ClientAddr(1), <<Datagram(7, t, n)>>, 1)
                    ELSE IdleReq]
    /\ nreq = 1
    /\ env = [n |-> 1, inputs |-> {}, outcomes |-> WideOutcomes]
    /\ frame = NoFrame

NextResp == \E r \in Reqs : Handle(r) \/ ResolverReturn(r)

SpecResp == InitResp /\ [][NextResp]_vars

(***************************************************************************)
(* TCP framing alone: a payload written by send_data and read by get_data. *)
(***************************************************************************)
Bytes == {0, 1, 255}

RECURSIVE ByteSeqs(_)
ByteSeqs(n) ==
    IF n = 0 THEN {<<>>}
    ELSE ByteSeqs(n - 1) \cup {s \o <<b>> : s \in ByteSeqs(n - 1), b \in Bytes}

LongPayload(n) == [i \in 1..n |-> (i * 7) % 256]

\* every short payload, and payloads around 256, the read size and 16 bits
Payloads ==
    ByteSeqs(MaxPayload)
    \cup {LongPayload(n) : n \in {254, 255, 256, 257, 8189, 8190, 8191, 65535, 65536}}

InitFrame ==
    /\ cfg = SysConfig
    /\ args = [udp |-> FALSE, tcp |-> TRUE, port |-> DefaultPort]
    /\ mainpc = "loop"
    /\ msub = 2
    /\ servers = <<[NewServer("TCP", DefaultPort) EXCEPT !.thread = "serving"]>>
    /\ reqs = [r \in Reqs |-> IdleReq]
    /\ nreq = 0
    /\ env = [n |-> 0, inputs |-> {}, outcomes |-> SysOutcomes]
    /\ \E p \in Payloads : frame = [NoFrame EXCEPT !.pc = "init", !.p = p]

\* TCPRequestHandler.send_data(p): the bytes handed to sendall
FrameSend ==
    /\ frame.pc = "init"
    /\ LET s == TCP_send_data(frame.p) IN
       frame' = [frame EXCEPT !.pc = "sent", !.sendok = s.ok, !.wire = s.bytes]
    /\ UNCHANGED <<cfg, args, mainpc, msub, servers, reqs, nreq, env>>

\* TCPRequestHandler.get_data() on a connection holding exactly those bytes
FrameRecv ==
    /\ frame.pc = "sent"
    /\ frame.sendok
    /\ frame' = [frame EXCEPT !.pc = "read", !.got = TCP_get_data(<<frame.wire>>)]
    /\ UNCHANGED <<cfg, args, mainpc, msub, servers, reqs, nreq, env>>

NextFrame == FrameSend \/ FrameRecv

SpecFrame == InitFrame /\ [][NextFrame]_vars

(***************************************************************************)
(* One TCP connection handed to a handler thread, over the ways a client's *)
(* bytes can reach the handler's read.                                     *)
(***************************************************************************)
\* a name of n bytes: "aaa ... a."
LongName(n) == [i \in 1..n |-> IF i = n THEN 46 ELSE 97]

\* the well formed queries a client sends over TCP
TCPQueries ==
    {Datagram(9, t, n) : t \in QTypes, n \in SysNames}
    \cup {Datagram(9, QTYPE_A, LongName(n)) : n \in {8188, 8189, 8190}}

\* every way of delivering the stream f in two segments
Splits(f) == {<<SubSeq(f, 1, k), SubSeq(f, k + 1, Len(f))>> : k \in 1..(Len(f) - 1)}

Pipelined == Framed(Datagram(10, QTYPE_A, str_a \o DOT))

TCPDeliveries ==
    {<<Framed(q)>> : q \in TCPQueries}                       \* one segment
    \cup UNION {Splits(Framed(q)) : q \in {d \in TCPQueries : Len(d) < 64}}
    \cup {<<Framed(q), Pipelined>> : q \in TCPQueries}       \* a second query behind
    \cup {<<Framed(q) \o Pipelined>> : q \in TCPQueries}     \* ... in the same segment
    \cup {<<Framed(q) \o <<0>>>> : q \in TCPQueries}
    \cup {<<Framed(Malformed)>>, <<>>}

InitTCP ==
    /\ cfg = SysConfig
    /\ args = [udp |-> FALSE, tcp |-> TRUE, port |-> DefaultPort]
    /\ mainpc = "loop"
    /\ msub = 2
    /\ servers = <<[NewServer("TCP", DefaultPort) EXCEPT !.thread = "serving"]>>
    /\ \E c \in TCPDeliveries :
          reqs = [r \in Reqs |->
                    IF r = 1 THEN NewReq("TCP", ClientAddr(1), c, 1) ELSE IdleReq]
    /\ nreq = 1
    /\ env = [n |-> 1, inputs |-> {}, outcomes |-> SysOutcomes]
    /\ frame = NoFrame

SpecTCP == InitTCP /\ [][NextResp]_vars

(***************************************************************************)
(* main() over every choice of flags and port, with a client or two.       *)
(***************************************************************************)
InitMain ==
    /\ cfg = SysConfig
    /\ args \in [udp : BOOLEAN, tcp : BOOLEAN, port : Ports]
    /\ mainpc = "parse"
    /\ msub = 0
    /\ servers = <<>>
    /\ reqs = [r \in Reqs |-> IdleReq]
    /\ nreq = 0
    /\ env = [n |-> MaxReq, inputs |-> LiveInputs, outcomes |-> SysOutcomes]
    /\ frame = NoFrame

SpecMain == InitMain /\ [][Next]_vars

(***************************************************************************)
(* The whole server under the scheduling the threads get: main(), the      *)
(* serve_forever loops and the handlers keep running; whether a client     *)
(* sends, a resolver returns or the operator interrupts is up to them.     *)
(***************************************************************************)
LiveInit ==
    /\ cfg = SysConfig
    /\ args \in [udp : BOOLEAN, tcp : BOOLEAN, port : {DefaultPort}]
    /\ mainpc = "parse"
    /\ msub = 0
    /\ servers = <<>>
    /\ reqs = [r \in Reqs |-> IdleReq]
    /\ nreq = 0
    /\ env = [n |-> MaxReq, inputs |-> LiveInputs, outcomes |-> SysOutcomes]
    /\ frame = NoFrame

MainProgress ==
    \/ MainParse \/ MainCreateUDP \/ MainCreateTCP \/ MainStart
    \/ MainShutdownRequest \/ MainShutdownWait \/ MainExit

Fairness ==
    /\ WF_vars(MainProgress)
    /\ \A i \in 1..2 : WF_vars(LoopExit(i))
    /\ \A r \in Reqs : WF_vars(Handle(r))

LiveSpec == LiveInit /\ [][Next]_vars /\ Fairness

(***************************************************************************)
(* Properties.                                                             *)
(***************************************************************************)
\* x occurs in s, stated by position
Occurs(x, s) ==
    \E a \in 0..Len(s) :
        /\ a + Len(x) <= Len(s)
        /\ \A k \in 1..Len(x) : s[a + k] = x[k]

Items(list) == {list[k] : k \in 1..Len(list)}

\* the name a decoded request asks for
AskedName(rec) == SubSeq(rec.data, 3, Len(rec.data))

Classified(rec) == rec.pc \in {"query", "done"} /\ rec.branch # "none"

IsIdentity(qn) == qn \in Items(cfg.myreversedns)
HasMarker(qn) == Occurs(opendns_com, qn)
InRedirect(qn) == \E x \in Items(cfg.sniproxyDomains) : Occurs(x, qn)
InForcedSecondary(qn) == \E x \in Items(cfg.alwaysUnlocator) : Occurs(x, qn)
InForcedPrimary(qn) == \E x \in Items(cfg.alwaysOpendns) : Occurs(x, qn)

\* the answer section of a reply is the single record (rtype, rdata) for qn, ttl 300
OneRecord(reply, qn, rtype, rdata) ==
    reply.rr = <<[rname |-> qn, rtype |-> rtype, rdata |-> rdata, ttl |-> 300]>>

\* the handler wrote exactly one response, the encoded reply, to its client
SentReply(rec) ==
    /\ rec.outcome = "replied"
    /\ Len(rec.sent) = 1
    /\ rec.sent[1].to = rec.client
    /\ rec.sent[1].bytes = send_data(rec.kind, DNSRecord_pack(rec.reply)).bytes

\* 146.112.61.104/29 is the eight addresses 146.112.61.104 .. 146.112.61.111
InBlockRange(a) ==
    a[1] = 146 /\ a[2] = 112 /\ a[3] = 61 /\ a[4] >= 104 /\ a[4] <= 111

\* C1: every decoded request is classified by exactly one decision, the first
\* applicable of: identity member -> Local, contains 'opendns.com' -> Management,
\* a sniproxy entry occurs in the name -> Redirect, an alwaysUnlocator entry
\* occurs -> ForcedSecondary, an alwaysOpendns entry occurs -> ForcedPrimary,
\* else Adaptive; a name in both the redirect and the forced-primary list is
\* Redirect.
C1_FirstMatchWins ==
    \A r \in Reqs :
        LET rec == reqs[r]
            qn == AskedName(rec)
            m1 == IsIdentity(qn)
            m2 == HasMarker(qn)
            m3 == InRedirect(qn)
            m4 == InForcedSecondary(qn)
            m5 == InForcedPrimary(qn)
        IN  /\ (rec.pc \in {"query", "done"} /\ rec.err \notin {"framing", "decode"})
                => rec.branch \in {"Local", "Management", "Redirect",
                                   "ForcedSecondary", "ForcedPrimary", "Adaptive"}
            /\ Classified(rec) =>
                /\ rec.branch = "Local" <=> m1
                /\ rec.branch = "Management" <=> ~m1 /\ m2
                /\ rec.branch = "Redirect" <=> ~m1 /\ ~m2 /\ m3
                /\ rec.branch = "ForcedSecondary" <=> ~m1 /\ ~m2 /\ ~m3 /\ m4
                /\ rec.branch = "ForcedPrimary" <=> ~m1 /\ ~m2 /\ ~m3 /\ ~m4 /\ m5
                /\ rec.branch = "Adaptive" <=> ~m1 /\ ~m2 /\ ~m3 /\ ~m4 /\ ~m5
                /\ (~m1 /\ ~m2 /\ m3 /\ m5) => rec.branch = "Redirect"

\* a name that matches the redirect list and the forced-primary list was answered
C1_Witness ==
    \E r \in Reqs :
        /\ reqs[r].pc = "done" /\ reqs[r].outcome = "replied"
        /\ ~IsIdentity(AskedName(reqs[r])) /\ ~HasMarker(AskedName(reqs[r]))
        /\ InRedirect(AskedName(reqs[r])) /\ InForcedPrimary(AskedName(reqs[r]))
        /\ ~InForcedSecondary(AskedName(reqs[r]))
        /\ reqs[r].branch = "Redirect"

\* C2: an Adaptive request for which both resolvers answered is answered with one
\* A record: the OpenDNS address when it lies in 146.112.61.104/29 (logged
\* BLOCKED), the Unlocator address otherwise (logged UNLOCATOR).
C2_AdaptiveBlockWins ==
    \A r \in Reqs :
        LET rec == reqs[r]
            qn == AskedName(rec)
        IN  (rec.branch = "Adaptive" /\ rec.pc = "done"
                /\ rec.odnsAns # NoAddr /\ rec.unlocAns # NoAddr)
            => /\ SentReply(rec)
               /\ InBlockRange(rec.odnsAns)
                    => /\ OneRecord(rec.reply, qn, 1, rec.odnsAns)
                       /\ rec.logged = <<InfoLine("BLOCKED", qn, rec.odnsAns)>>
               /\ ~InBlockRange(rec.odnsAns)
                    => /\ OneRecord(rec.reply, qn, 1, rec.unlocAns)
                       /\ rec.logged = <<InfoLine("UNLOCATOR", qn, rec.unlocAns)>>

\* OpenDNS answered the last address of the block network, Unlocator another
\* address, and the reply carries the OpenDNS one
C2_Witness ==
    \E r \in Reqs :
        /\ reqs[r].branch = "Adaptive" /\ reqs[r].pc = "done"
        /\ reqs[r].odnsAns = <<146, 112, 61, 111>>
        /\ reqs[r].unlocAns = <<93, 184, 216, 34>>
        /\ reqs[r].reply.rr[1].rdata = <<146, 112, 61, 111>>

\* C3: a query whose name is in myreversedns is answered with exactly one PTR
\* record 'localdns', ttl 300, and its handler calls no resolver, whatever the
\* rule lists hold.
C3_LocalNoResolver ==
    \A r \in Reqs :
        LET rec == reqs[r]
            qn == AskedName(rec)
        IN  (rec.pc \in {"query", "done"} /\ rec.bound /\ IsIdentity(qn))
            => /\ rec.pc = "done"
               /\ rec.calls = <<>>
               /\ OneRecord(rec.reply, qn, 12, localdns)
               /\ SentReply(rec)

\* an identity name that a rule list matches as well was answered locally
C3_Witness ==
    \E r \in Reqs :
        /\ reqs[r].pc = "done" /\ reqs[r].outcome = "replied"
        /\ IsIdentity(AskedName(reqs[r]))
        /\ InRedirect(AskedName(reqs[r]))
        /\ reqs[r].reply.rr[1].rtype = QTYPE_PTR

\* C4: a query that is not an identity name, has no 'opendns.com' and matches a
\* sniproxy entry is answered with exactly one A record holding sniproxyServer,
\* ttl 300, and neither resolver is called.
C4_RedirectNoResolver ==
    \A r \in Reqs :
        LET rec == reqs[r]
            qn == AskedName(rec)
        IN  (rec.pc \in {"query", "done"} /\ rec.bound
                /\ ~IsIdentity(qn) /\ ~HasMarker(qn) /\ InRedirect(qn))
            => /\ rec.pc = "done"
               /\ rec.calls = <<>>
               /\ OneRecord(rec.reply, qn, 1, cfg.sniproxyServer)
               /\ SentReply(rec)

\* a redirect name that the alwaysUnlocator list matches too got the sniproxy address
C4_Witness ==
    \E r \in Reqs :
        /\ reqs[r].pc = "done" /\ reqs[r].outcome = "replied"
        /\ reqs[r].branch = "Redirect"
        /\ InForcedSecondary(AskedName(reqs[r]))
        /\ reqs[r].reply.rr[1].rdata = SniproxyAddr

\* C5: Management and ForcedPrimary call opendnsRes once and nothing else, and
\* answer one A record with its address; ForcedSecondary calls unlocatorRes once
\* and nothing else, and answers one A record with its address.
C5_SingleResolver ==
    \A r \in Reqs :
        LET rec == reqs[r]
            qn == AskedName(rec)
        IN  /\ (Classified(rec) /\ rec.branch \in {"Management", "ForcedPrimary"})
                => /\ rec.calls = <<"opendns">>
                   /\ rec.unlocAns = NoAddr
                   /\ rec.outcome = "replied"
                        => /\ OneRecord(rec.reply, qn, 1, rec.odnsAns)
                           /\ rec.odnsAns # NoAddr
                           /\ SentReply(rec)
            /\ (Classified(rec) /\ rec.branch = "ForcedSecondary")
                => /\ rec.calls = <<"unlocator">>
                   /\ rec.odnsAns = NoAddr
                   /\ rec.outcome = "replied"
                        => /\ OneRecord(rec.reply, qn, 1, rec.unlocAns)
                           /\ rec.unlocAns # NoAddr
                           /\ SentReply(rec)

\* a ForcedSecondary request was answered with the address Unlocator returned
C5_Witness ==
    \E r \in Reqs :
        /\ reqs[r].branch = "ForcedSecondary" /\ reqs[r].outcome = "replied"
        /\ reqs[r].calls = <<"unlocator">>
        /\ reqs[r].reply.rr[1].rdata = <<146, 112, 61, 105>>

\* what the handler's single read returned: the first segment, at most 8192
\* bytes of it for TCP
FirstRead(rec) ==
    IF rec.conn = <<>> THEN <<>>
    ELSE IF rec.kind = "TCP" /\ Len(rec.conn[1]) > 8192
    THEN [i \in 1..8192 |-> rec.conn[1][i]]
    ELSE rec.conn[1]

\* a TCP read whose length prefix does not match the bytes that follow it
LengthMismatch(rec) ==
    /\ rec.kind = "TCP"
    /\ Len(FirstRead(rec)) >= 2
    /\ 256 * FirstRead(rec)[1] + FirstRead(rec)[2] # Len(FirstRead(rec)) - 2

\* a TCP read too short to hold a length prefix
NoPrefix(rec) == rec.kind = "TCP" /\ Len(FirstRead(rec)) < 2

\* the message bytes of a well framed request
Payload(rec) ==
    IF rec.kind = "TCP" THEN SubSeq(FirstRead(rec), 3, Len(FirstRead(rec)))
    ELSE FirstRead(rec)

Undecodable(rec) ==
    ~LengthMismatch(rec) /\ ~NoPrefix(rec) /\ ~DNSRecord_parse(Payload(rec)).ok

Started(rec) == rec.pc \in {"query", "done"}

\* C6: a request that ends in a framing error, a decode error or a resolver
\* failure gets no byte sent; whatever a handler sends is one complete encoded
\* reply, sent once dns_response has returned it.
C6_NoReplyOnFailure ==
    \A r \in Reqs :
        LET rec == reqs[r] IN
        /\ (Started(rec)
              /\ (LengthMismatch(rec) \/ NoPrefix(rec) \/ Undecodable(rec)
                    \/ rec.err = "resolver"))
            => rec.sent = <<>> /\ rec.outcome # "replied"
        /\ rec.pc # "done" => rec.sent = <<>>
        /\ rec.sent # <<>>
            => /\ SentReply(rec)
               /\ rec.err = "none"
               /\ Len(rec.reply.rr) = 1
               /\ rec.reply.id = Payload(rec)[1]

\* a TCP request dropped for its framing and a UDP request dropped for a resolver
\* failure, neither answered
C6_Witness ==
    \E r1, r2 \in Reqs :
        /\ reqs[r1].pc = "done" /\ LengthMismatch(reqs[r1]) /\ reqs[r1].sent = <<>>
        /\ reqs[r2].pc = "done" /\ reqs[r2].kind = "UDP" /\ reqs[r2].err = "resolver"
        /\ reqs[r2].branch = "Adaptive" /\ reqs[r2].odnsAns # NoAddr
        /\ reqs[r2].sent = <<>>

\* C7: a TCP request whose length prefix differs from the number of bytes after
\* it never reaches dns_response: it is not decoded or classified, no resolver is
\* called, nothing is written back.
C7_MismatchRejected ==
    \A r \in Reqs :
        LET rec == reqs[r] IN
        (rec.pc # "idle" /\ LengthMismatch(rec))
        => /\ rec.pc \in {"handle", "done"}
           /\ ~rec.bound
           /\ rec.branch = "none"
           /\ rec.calls = <<>>
           /\ rec.reply = NoReply
           /\ rec.sent = <<>>
           /\ rec.pc = "done" => rec.outcome # "replied" /\ rec.err = "framing"

\* one connection with a byte too many and one with a byte missing were both handled
C7_Witness ==
    \E r1, r2 \in Reqs :
        /\ reqs[r1].pc = "done" /\ LengthMismatch(reqs[r1])
        /\ 256 * FirstRead(reqs[r1])[1] + FirstRead(reqs[r1])[2]
              < Len(FirstRead(reqs[r1])) - 2
        /\ reqs[r2].pc = "done" /\ LengthMismatch(reqs[r2])
        /\ 256 * FirstRead(reqs[r2])[1] + FirstRead(reqs[r2])[2]
              > Len(FirstRead(reqs[r2])) - 2

\* C8: for a payload p of at most 65535 bytes send_data writes the two bytes of
\* len(p), high byte first, followed by p; when 2 + len(p) <= 8192, get_data on
\* those bytes returns p and raises nothing.
C8_FramingRoundTrip ==
    LET p == frame.p
        w == frame.wire
    IN  /\ (frame.pc \in {"sent", "read"} /\ Len(p) <= 65535)
            => /\ frame.sendok
               /\ Len(w) = Len(p) + 2
               /\ w[1] \in 0..255 /\ w[2] \in 0..255
               /\ 256 * w[1] + w[2] = Len(p)
               /\ SubSeq(w, 3, Len(w)) = p
        /\ (frame.pc = "sent" /\ Len(p) <= 65535) => ENABLED FrameRecv
        /\ (frame.pc = "read" /\ 2 + Len(p) <= 8192)
            => frame.got.ok /\ frame.got.data = p /\ frame.got.err = "none"

\* the largest payload whose frame fits one read went through unchanged
C8_Witness ==
    /\ frame.pc = "read"
    /\ Len(frame.p) = 8190
    /\ frame.got.ok
    /\ frame.got.data = frame.p

Blocked(rec) == rec.pc = "query"

\* clients still have a request of this listener's kind to send
Offered(i) ==
    nreq < env.n /\ \E inp \in env.inputs : inp.kind = servers[i].kind

\* C9: no head-of-line blocking.  A running listener accepts the next request
\* whatever the handlers are doing; a handler whose resolver call returns goes on
\* whatever the others are doing; and every handler that is not itself waiting
\* for a resolver makes its step, even while another one waits for ever.
C9_NoHeadOfLineBlocking ==
    /\ [](\A i \in 1..Len(servers) :
            (ListenerState(servers[i]) = "Running" /\ Offered(i))
                => ENABLED Accept(i))
    /\ [](\A r \in Reqs :
            /\ reqs[r].pc = "handle" => ENABLED Handle(r)
            /\ Blocked(reqs[r]) => ENABLED ResolverReturn(r))
    /\ \A r \in Reqs :
            (reqs[r].pc = "handle") ~> (Blocked(reqs[r]) \/ reqs[r].pc = "done")

\* the first request still waits for OpenDNS; the second, accepted after it by the
\* same listener, has called both resolvers and has been answered
C9_Witness ==
    /\ Blocked(reqs[1]) /\ reqs[1].calls = <<"opendns">>
    /\ reqs[2].kind = reqs[1].kind
    /\ reqs[2].seq > reqs[1].seq
    /\ reqs[2].outcome = "replied"
    /\ reqs[2].calls = <<"opendns", "unlocator">>
    /\ \E i \in 1..Len(servers) :
          servers[i].kind = reqs[1].kind /\ ListenerState(servers[i]) = "Running"

AllStopped ==
    \A i \in 1..Len(servers) :
        servers[i].thread = "exited" /\ ListenerState(servers[i]) = "Stopped"

\* C10: a listener only moves Stopped -> Running -> Stopping -> Stopped and is
\* not started again; an interrupt in main's loop leads to shutdown being asked
\* of every started listener and to every accept loop having left; when main is
\* through its finally clause no listener is Running; and the steps of the
\* shutdown leave the handler threads as they are, free to go on.
C10_ListenerLifecycle ==
    /\ [][\A i \in 1..Len(servers) :
            LET a == ListenerState(servers[i])
                b == ListenerState(servers'[i])
            IN  /\ a = b \/ <<a, b>> \in {<<"Stopped", "Running">>,
                                          <<"Running", "Stopping">>,
                                          <<"Stopping", "Stopped">>}
                /\ servers[i].thread = "exited" => servers'[i].thread = "exited"
                /\ (a = "Stopping" /\ b = "Stopped") => reqs' = reqs]_vars
    /\ [][(mainpc \in {"shutdown", "exited"} /\ (mainpc' # mainpc \/ servers' # servers))
            => reqs' = reqs]_vars
    /\ [](mainpc = "exited" => AllStopped)
    /\ [](\A i \in 1..Len(servers) :
            ListenerState(servers[i]) # "Running" => ~ENABLED Accept(i))
    /\ [](\A r \in Reqs :
            (mainpc \in {"shutdown", "exited"} /\ reqs[r].pc = "handle")
                => ENABLED Handle(r))
    /\ (mainpc = "shutdown") ~> (mainpc = "exited" /\ AllStopped)

\* main is through its finally clause, both listeners have left their loops, and a
\* request accepted before the interrupt is still waiting for its resolver
C10_Witness ==
    /\ mainpc = "exited"
    /\ Len(servers) = 2
    /\ AllStopped
    /\ \E r \in Reqs : Blocked(reqs[r])

\* the log holds an error record with the client's address and port and the raw
\* bytes of the request
HasErrorRecord(rec) ==
    \E k \in 1..Len(rec.logged) :
        /\ rec.logged[k].level = "ERROR"
        /\ rec.logged[k].client = rec.client
        /\ rec.logged[k].data \in {FirstRead(rec), Payload(rec)}

\* C11: every request that ends in a framing error, a decode error or a resolver
\* failure has left an error record with its raw bytes and its client's address
\* and port in the log.
C11_ErrorLogged ==
    \A r \in Reqs :
        (reqs[r].pc = "done" /\ reqs[r].err \in {"framing", "decode", "resolver"})
            => HasErrorRecord(reqs[r])

\* the info lines a handler has appended to the log, in order
InfoLines(rec) == SelectSeq(rec.logged, LAMBDA l : l.level = "INFO")

\* dns_response has built an answer for the request
Answered(rec) == rec.reply # NoReply

\* the label the code logs for a decision
LabelOf(rec) ==
    IF rec.branch = "Management" THEN "MGMT"
    ELSE IF rec.branch = "Redirect" THEN "SNIPROXY"
    ELSE IF rec.branch = "ForcedSecondary" THEN "ALWAYS_UNLOCATOR"
    ELSE IF rec.branch = "ForcedPrimary" THEN "ALWAYS_OPENDNS"
    ELSE IF InBlockRange(rec.odnsAns) THEN "BLOCKED"
    ELSE "UNLOCATOR"

\* C12 as stated: every request for which dns_response builds an answer, Local
\* included, appends exactly one info line with the label of its decision and
\* the query name; the line of a Local answer carries LOCAL and no address, every
\* other line the answer address.
C12_OneLinePerAnswer ==
    \A r \in Reqs :
        LET rec == reqs[r]
            lines == InfoLines(rec)
        IN  Answered(rec)
            => /\ Len(lines) = 1
               /\ lines[1].qn = AskedName(rec)
               /\ IF rec.branch = "Local"
                  THEN lines[1].label = "LOCAL" /\ lines[1].addr = NoAddr
                  ELSE lines[1].label = LabelOf(rec)
                       /\ lines[1].addr = rec.reply.rr[1].rdata

\* C12, amended: a request answered under a decision other than Local appends
\* exactly one info line (MGMT, SNIPROXY, ALWAYS_UNLOCATOR, ALWAYS_OPENDNS,
\* BLOCKED or UNLOCATOR, the query name, the answer address); a request answered
\* under Local appends no line.
C12_OneLinePerForwarded ==
    \A r \in Reqs :
        LET rec == reqs[r]
            lines == InfoLines(rec)
        IN  /\ Answered(rec) /\ rec.branch = "Local" => lines = <<>>
            /\ Answered(rec) /\ rec.branch # "Local"
                => /\ Len(lines) = 1
                   /\ lines[1].label = LabelOf(rec)
                   /\ lines[1].qn = AskedName(rec)
                   /\ lines[1].addr = rec.reply.rr[1].rdata
                   /\ lines[1].addr # NoAddr
            /\ ~Answered(rec) => lines = <<>>

\* a Local answer was sent and the log is empty
C12_Witness ==
    \E r \in Reqs :
        /\ reqs[r].branch = "Local" /\ reqs[r].outcome = "replied"
        /\ Answered(reqs[r])
        /\ reqs[r].logged = <<>>

\* the transports asked for on the command line, in the order main creates them
EnabledKinds ==
    (IF args.udp THEN <<"UDP">> ELSE <<>>) \o (IF args.tcp THEN <<"TCP">> ELSE <<>>)

\* main is past the creation of its servers
Created == mainpc \in {"start", "loop", "shutdown", "exited"}

\* C13: with neither --tcp nor --udp main ends in the usage error, with a status
\* other than 0, and no listener is ever created, bound or started; with at least
\* one of them there is no usage error and, once main has created its servers,
\* the listeners are exactly the enabled transports, one each, all on args.port.
C13_UsageAndTransports ==
    /\ []((~args.udp /\ ~args.tcp)
            => /\ mainpc \in {"parse", "usage_error"}
               /\ servers = <<>>
               /\ nreq = 0)
    /\ [][(mainpc = "parse" /\ ~args.udp /\ ~args.tcp) => mainpc' = "usage_error"]_vars
    /\ [][mainpc # "usage_error"]_vars
    /\ [](mainpc = "usage_error" => exit_status(mainpc) # 0 /\ ~args.udp /\ ~args.tcp)
    /\ [](\A i \in 1..Len(servers) :
            /\ servers[i].kind \in Items(EnabledKinds)
            /\ servers[i].port = args.port
            /\ \A j \in 1..Len(servers) : servers[j].kind = servers[i].kind => j = i)
    /\ [](Created => [i \in 1..Len(servers) |-> servers[i].kind] = EnabledKinds)
    /\ [](\A r \in Reqs : reqs[r].pc # "idle" => reqs[r].kind \in Items(EnabledKinds))

\* a run without --tcp and --udp, on port 53, has ended in the usage error
C13_Witness ==
    /\ mainpc = "usage_error"
    /\ ~args.udp /\ ~args.tcp
    /\ args.port = 53
    /\ servers = <<>>

\* no accept loop has been started and no request has been handed to a handler
NothingServed ==
    /\ \A i \in 1..Len(servers) :
          servers[i].thread = "new" /\ ListenerState(servers[i]) = "Stopped"
    /\ nreq = 0
    /\ \A r \in Reqs : reqs[r] = IdleReq

\* C14: while main creates its servers none of them serves; when a bind fails
\* main is left by the exception, with a status other than 0, before any accept
\* loop is started: no listener accepts, no request is ever handled, also not by
\* the transport that was bound before the failure.
C14_BindFailureFatal ==
    /\ [](mainpc \in {"parse", "create_udp", "create_tcp", "bind_error"} => NothingServed)
    /\ [](mainpc = "bind_error"
            => /\ exit_status(mainpc) # 0
               /\ Len(servers) < Len(EnabledKinds)
               /\ \A i \in 1..Len(servers) : ~ENABLED Accept(i)
               /\ \A r \in Reqs : ~ENABLED Handle(r) /\ ~ENABLED ResolverReturn(r))
    /\ [][mainpc # "bind_error"]_vars

\* binding the TCP socket on port 53 failed after the UDP socket had been bound
C14_Witness ==
    /\ mainpc = "bind_error"
    /\ args.udp /\ args.tcp /\ args.port = 53
    /\ Len(servers) = 1
    /\ servers[1].kind = "UDP"

\* the length the prefix of a read declares, and the bytes that follow the prefix
Declared(rec) == 256 * FirstRead(rec)[1] + FirstRead(rec)[2]
Following(rec) == Len(FirstRead(rec)) - 2

\* a TCP handler whose read held a length prefix is through get_data
ReadPrefix(rec) == rec.kind = "TCP" /\ rec.pc = "done" /\ Len(FirstRead(rec)) >= 2

\* C15 as stated: fewer bytes after the prefix than it declares fail with the
\* "wrong size" error, more bytes than it declares with the "too big" error.
C15_MessagesAsNamed ==
    \A r \in Reqs :
        LET rec == reqs[r] IN
        /\ (ReadPrefix(rec) /\ Following(rec) < Declared(rec))
            => rec.err = "framing" /\ rec.exc = "Wrong size of TCP packet"
        /\ (ReadPrefix(rec) /\ Following(rec) > Declared(rec))
            => rec.err = "framing" /\ rec.exc = "Too big TCP packet"

\* C15, amended: fewer bytes after the prefix than it declares fail with "Too
\* big TCP packet", more bytes than it declares with "Wrong size of TCP packet";
\* a read whose prefix matches raises neither.
C15_MessagesAsCoded ==
    \A r \in Reqs :
        LET rec == reqs[r] IN
        /\ (ReadPrefix(rec) /\ Following(rec) < Declared(rec))
            => rec.err = "framing" /\ rec.exc = "Too big TCP packet"
        /\ (ReadPrefix(rec) /\ Following(rec) > Declared(rec))
            => rec.err = "framing" /\ rec.exc = "Wrong size of TCP packet"
        /\ (ReadPrefix(rec) /\ Following(rec) = Declared(rec))
            => rec.err # "framing" /\ rec.exc = "none"

\* a read with one byte more than declared ended with "Wrong size of TCP packet"
C15_Witness ==
    \E r \in Reqs :
        /\ ReadPrefix(reqs[r])
        /\ Following(reqs[r]) = Declared(reqs[r]) + 1
        /\ reqs[r].exc = "Wrong size of TCP packet"

\* C16: an Adaptive request chooses no answer and sends nothing before both
\* resolver calls have returned an address, OpenDNS asked first; it is answered
\* exactly when both did; when either call fails it ends with no reply built and
\* nothing sent, also when the OpenDNS address lies in 146.112.61.104/29 and only
\* Unlocator fails.
C16_AdaptiveNeedsBoth ==
    \A r \in Reqs :
        LET rec == reqs[r] IN
        (Classified(rec) /\ rec.branch = "Adaptive")
        => /\ rec.pc = "query" => ~Answered(rec) /\ rec.sent = <<>>
           /\ Answered(rec)
                => /\ rec.calls = <<"opendns", "unlocator">>
                   /\ rec.odnsAns # NoAddr /\ rec.unlocAns # NoAddr
           /\ rec.pc = "done"
                => /\ rec.outcome = "replied"
                      <=> (rec.odnsAns # NoAddr /\ rec.unlocAns # NoAddr)
                   /\ rec.outcome # "replied"
                      => /\ rec.err = "resolver"
                         /\ ~Answered(rec)
                         /\ rec.sent = <<>>
                         /\ InfoLines(rec) = <<>>
                   /\ rec.odnsAns = NoAddr => rec.calls = <<"opendns">>
           /\ (rec.pc = "done" /\ rec.odnsAns # NoAddr /\ InBlockRange(rec.odnsAns)
                /\ rec.unlocAns = NoAddr)
                => rec.sent = <<>> /\ ~Answered(rec)

\* OpenDNS answered the first address of the block network, Unlocator failed, and
\* the request ended without a reply
C16_Witness ==
    \E r \in Reqs :
        /\ reqs[r].branch = "Adaptive" /\ reqs[r].pc = "done"
        /\ reqs[r].odnsAns = <<146, 112, 61, 104>>
        /\ reqs[r].calls = <<"opendns", "unlocator">>
        /\ reqs[r].unlocAns = NoAddr
        /\ reqs[r].err = "resolver"
        /\ reqs[r].sent = <<>>

\* the bytes of a sequence of segments, in order
RECURSIVE Flat(_)
Flat(chunks) == IF chunks = <<>> THEN <<>> ELSE Head(chunks) \o Flat(Tail(chunks))

\* the stream a client put on its connection
Stream(rec) == Flat(rec.conn)

\* C17: the handler of a TCP connection reads once and handles one request: when
\* it is through it has made exactly one read, everything the client sent beyond
\* that read is still unread, it has written one response frame, that of the
\* request in its read, if the request succeeded and nothing if it failed, and
\* it never runs again.
C17_OneRequestPerConnection ==
    /\ [](\A r \in Reqs :
            LET rec == reqs[r] IN
            rec.kind = "TCP"
            => /\ rec.reads <= 1
               /\ Len(rec.sent) <= 1
               /\ rec.pc \in {"query", "done"}
                    => /\ rec.reads = 1
                       /\ FirstRead(rec) \o Flat(rec.unread) = Stream(rec)
               /\ rec.pc = "done"
                    => /\ rec.outcome = "replied" <=> Len(rec.sent) = 1
                       /\ rec.outcome = "replied"
                            => /\ SentReply(rec)
                               /\ rec.sent[1].bytes[1] * 256 + rec.sent[1].bytes[2]
                                    = Len(rec.sent[1].bytes) - 2
                               /\ rec.reply.id = Payload(rec)[1]
                               /\ rec.reply.q.qname = AskedName(rec)
                       /\ ~ENABLED Handle(r) /\ ~ENABLED ResolverReturn(r))
    /\ [][\A r \in Reqs : reqs[r].pc = "done" => reqs'[r] = reqs[r]]_vars

\* a connection carrying two well framed queries in two segments: the first was
\* answered, the second is still unread and the handler is through
C17_Witness ==
    \E r \in Reqs :
        /\ reqs[r].kind = "TCP" /\ reqs[r].pc = "done"
        /\ reqs[r].outcome = "replied"
        /\ Len(reqs[r].sent) = 1
        /\ reqs[r].reads = 1
        /\ reqs[r].unread = <<Pipelined>>

\* the decision the rules give for a name, stated rule by rule
RuleFor(qn) ==
    IF IsIdentity(qn) THEN "Local"
    ELSE IF HasMarker(qn) THEN "Management"
    ELSE IF InRedirect(qn) THEN "Redirect"
    ELSE IF InForcedSecondary(qn) THEN "ForcedSecondary"
    ELSE IF InForcedPrimary(qn) THEN "ForcedPrimary"
    ELSE "Adaptive"

\* the answer record a request's own name and own resolver answers call for
OwnRecord(rec) ==
    LET qn == AskedName(rec)
        d == RuleFor(qn)
    IN  IF d = "Local"
        THEN [rname |-> qn, rtype |-> 12, rdata |-> localdns, ttl |-> 300]
        ELSE [rname |-> qn, rtype |-> 1, ttl |-> 300,
              rdata |-> IF d = "Redirect" THEN cfg.sniproxyServer
                        ELSE IF d \in {"Management", "ForcedPrimary"} THEN rec.odnsAns
                        ELSE IF d = "ForcedSecondary" THEN rec.unlocAns
                        ELSE IF InBlockRange(rec.odnsAns) THEN rec.odnsAns
                        ELSE rec.unlocAns]

\* C18: in every interleaving of the handlers, UDP and TCP mixed, a handler sends
\* at most one response, to the client address of its own request; the response
\* carries the id and the question of that request and the record its own name
\* and its own resolver answers call for; requests have clients of their own, and
\* a step changes the record of one handler only.
C18_RequestIsolation ==
    /\ [](\A r \in Reqs :
            LET rec == reqs[r] IN
            rec.pc # "idle"
            => /\ rec.seq = r /\ r <= nreq
               /\ rec.client = <<<<192, 168, 1, r>>, 50000 + r>>
               /\ \A q \in Reqs : (q # r /\ reqs[q].pc # "idle")
                                    => reqs[q].client # rec.client
               /\ Len(rec.sent) <= 1
               /\ \A k \in 1..Len(rec.sent) : rec.sent[k].to = rec.client
               /\ rec.outcome = "replied"
                    => /\ SentReply(rec)
                       /\ rec.reply.id = Payload(rec)[1]
                       /\ rec.reply.q = [qname |-> AskedName(rec),
                                         qtype |-> Payload(rec)[2]]
                       /\ rec.branch = RuleFor(AskedName(rec))
                       /\ rec.reply.rr = <<OwnRecord(rec)>>)
    /\ [][\A r, q \in Reqs : (r # q /\ reqs'[r] # reqs[r]) => reqs'[q] = reqs[q]]_vars

\* a UDP and a TCP request in flight together: the TCP one, accepted second, has
\* its answer while the UDP one still waits for Unlocator
C18_Witness ==
    /\ reqs[1].kind = "UDP" /\ reqs[1].pc = "query"
    /\ reqs[1].calls = <<"opendns", "unlocator">>
    /\ reqs[2].kind = "TCP" /\ reqs[2].outcome = "replied"
    /\ reqs[2].reply.id = 9
    /\ reqs[2].sent[1].to = <<<<192, 168, 1, 2>>, 50002>>

\* the client sent one well formed frame and nothing else: a length prefix and
\* exactly that many bytes, a query the codec decodes
WellFramed(stream) ==
    /\ Len(stream) >= 2
    /\ 256 * stream[1] + stream[2] = Len(stream) - 2
    /\ Len(stream) - 2 >= 3
    /\ stream[Len(stream)] = 46

\* C19: a well formed frame is served only when it arrives whole in the one read
\* of at most 8192 bytes.  When the read returns a strict prefix of it (the frame
\* comes in more than one segment, or is longer than 8192 bytes), fewer than 2
\* bytes included, the request ends with a framing error and no response, and
\* the rest of the frame stays unread; when the read returns the whole frame the
\* request gets past get_data.
C19_WholeFrameInOneRead ==
    \A r \in Reqs :
        LET rec == reqs[r]
            st == Stream(rec)
            rd == FirstRead(rec)
        IN  (rec.kind = "TCP" /\ rec.pc \in {"query", "done"} /\ WellFramed(st))
            => /\ Len(rd) < Len(st)
                    => /\ rec.pc = "done"
                       /\ rec.err = "framing"
                       /\ rec.outcome # "replied"
                       /\ rec.sent = <<>>
                       /\ ~rec.bound /\ rec.branch = "none"
                       /\ rec.reads = 1
                       /\ Flat(rec.unread) = SubSeq(st, Len(rd) + 1, Len(st))
                       /\ Len(rd) < 2 <=> rec.exc = "struct.error"
                       /\ Len(rd) >= 2 <=> rec.exc = "Too big TCP packet"
               /\ Len(rd) = Len(st)
                    => /\ rec.bound /\ rec.err # "framing"
                       /\ rec.data = SubSeq(st, 3, Len(st))
                       /\ Len(st) <= 8192

\* a well formed frame of 8193 bytes, sent in one segment, was dropped with one
\* byte of it left unread
C19_Witness ==
    \E r \in Reqs :
        /\ reqs[r].kind = "TCP" /\ reqs[r].pc = "done"
        /\ Len(reqs[r].conn) = 1
        /\ Len(reqs[r].conn[1]) = 8193
        /\ WellFramed(reqs[r].conn[1])
        /\ reqs[r].err = "framing"
        /\ reqs[r].sent = <<>>
        /\ Len(Flat(reqs[r].unread)) = 1

\* the record type a decoded request asked for
AskedType(rec) == rec.data[2]

\* C20: the decision and the answer record are those of the query name and the
\* resolver answers, whatever record type was asked for: an identity name gets
\* the PTR record also when it asked for A, every other answered name gets
\* exactly one A record with ttl 300 also when it asked for PTR, and the answer
\* section is the record the name and the resolver answers determine.
C20_TypeIndependent ==
    \A r \in Reqs :
        LET rec == reqs[r]
            qn == AskedName(rec)
        IN  /\ Classified(rec) => rec.branch = RuleFor(qn)
            /\ Answered(rec)
                => /\ Len(rec.reply.rr) = 1
                   /\ rec.reply.rr[1].rname = qn
                   /\ rec.reply.rr[1].ttl = 300
                   /\ IsIdentity(qn)
                        => rec.reply.rr[1].rtype = 12 /\ rec.reply.rr[1].rdata = localdns
                   /\ ~IsIdentity(qn) => rec.reply.rr[1].rtype = 1
                   /\ rec.reply.rr[1] = OwnRecord(rec)
                   /\ rec.reply.q.qtype = AskedType(rec)

\* a PTR question for a name outside the identity set, routed Adaptive, was
\* answered with an A record
C20_Witness ==
    \E r \in Reqs :
        /\ reqs[r].outcome = "replied"
        /\ AskedType(reqs[r]) = 12
        /\ ~IsIdentity(AskedName(reqs[r]))
        /\ reqs[r].branch = "Adaptive"
        /\ reqs[r].reply.rr[1].rtype = 1

=============================================================================
